---- MODULE Spec2Model ----
(***************************************************************************)
(* Model of SimpleMemoryServer (src/index.js): the in-memory entity store  *)
(* and the relevance-ranked search over it (searchNodes and its helpers).  *)
(*                                                                         *)
(* Strings are sequences of one-character strings.  Scores are exact       *)
(* rationals [num, den] in lowest terms (the source uses IEEE doubles).    *)
(***************************************************************************)
EXTENDS Integers, Sequences, FiniteSets, TLC

VARIABLES
    entities,   \* this.entities: the Map, as the sequence of its values in insertion order
    relations,  \* this.relations
    params,     \* the argument of the last call
    local,      \* locals of the last searchNodes call when it returned
    returned,   \* the value the last call returned
    memoryFile, \* the content of the file at MEMORY_PATH
    saving,     \* the saveMemory calls in the order they started, each with its stage
    loading     \* whether the loadMemory the constructor started is yet to finish

vars == <<entities, relations, params, local, returned, memoryFile, saving, loading>>

(***************************************************************************)
(* Numbers                                                                 *)
(***************************************************************************)
Min(a, b) == IF a <= b THEN a ELSE b
Max(a, b) == IF a >= b THEN a ELSE b

RECURSIVE GCD(_, _)
GCD(a, b) == IF b = 0 THEN a ELSE GCD(b, a % b)

Abs(n) == IF n < 0 THEN -n ELSE n

\* The rational n/d (d > 0) in lowest terms.
Rat(n, d) ==
    LET g == GCD(Abs(n), d)
    IN  [num |-> n \div g, den |-> d \div g]

\* 0/0, the only NaN the modelled arithmetic can produce.
NaN == [num |-> 0, den |-> 0]
IsNaN(x) == x.den = 0

RatInt(n) == [num |-> n, den |-> 1]
RatMul(x, y) == IF IsNaN(x) \/ IsNaN(y) THEN NaN ELSE Rat(x.num * y.num, x.den * y.den)
RatSub(x, y) ==
    IF IsNaN(x) \/ IsNaN(y) THEN NaN
    ELSE Rat(x.num * y.den - y.num * x.den, x.den * y.den)
RatAdd(x, y) ==
    IF IsNaN(x) \/ IsNaN(y) THEN NaN
    ELSE Rat(x.num * y.den + y.num * x.den, x.den * y.den)
\* Comparisons with NaN are false, as in IEEE arithmetic.
RatLE(x, y) == ~IsNaN(x) /\ ~IsNaN(y) /\ x.num * y.den <= y.num * x.den
RatLT(x, y) == ~IsNaN(x) /\ ~IsNaN(y) /\ x.num * y.den < y.num * x.den
RatGE(x, y) == RatLE(y, x)
RatGT(x, y) == RatLT(y, x)
\* Math.max(x, y)
RatMax(x, y) == IF IsNaN(x) \/ IsNaN(y) THEN NaN ELSE IF RatGE(x, y) THEN x ELSE y

(***************************************************************************)
(* JavaScript string operations                                            *)
(***************************************************************************)
LowerChar(c) ==
    CASE c = "A" -> "a"
      [] c = "B" -> "b"
      [] c = "X" -> "x"
      [] OTHER -> c

toLowerCase(s) == [i \in 1..Len(s) |-> LowerChar(s[i])]

IsWhiteSpace(c) == c = " "

RECURSIVE trimStart(_)
trimStart(s) ==
    IF s # <<>> /\ IsWhiteSpace(Head(s)) THEN trimStart(Tail(s)) ELSE s

RECURSIVE trimEnd(_)
trimEnd(s) ==
    IF s # <<>> /\ IsWhiteSpace(s[Len(s)])
    THEN trimEnd(SubSeq(s, 1, Len(s) - 1))
    ELSE s

trim(s) == trimEnd(trimStart(s))

\* The 0-based positions at which sub occurs in s.
Occurrences(s, sub) ==
    {i \in 0..(Len(s) - Len(sub)) : SubSeq(s, i + 1, i + Len(sub)) = sub}

includes(s, sub) == Occurrences(s, sub) # {}

indexOf(s, sub) ==
    IF includes(s, sub)
    THEN CHOOSE i \in Occurrences(s, sub) : \A j \in Occurrences(s, sub) : i <= j
    ELSE -1

substring(s, from, to) == SubSeq(s, from + 1, Min(to, Len(s)))

\* Array.prototype.join(' ') over an array of strings.
RECURSIVE join(_)
join(strs) ==
    IF strs = <<>> THEN <<>>
    ELSE IF Len(strs) = 1 THEN strs[1]
    ELSE strs[1] \o <<" ">> \o join(Tail(strs))

\* (s.match(new RegExp(escaped(sub), 'g')) || []).length: the occurrences of
\* the literal sub found scanning left to right, each resuming after the last.
RECURSIVE matchCount(_, _, _)
matchCount(s, sub, from) ==
    LET later == {i \in Occurrences(s, sub) : i >= from}
    IN  IF later = {} THEN 0
        ELSE LET first == CHOOSE i \in later : \A j \in later : i <= j
             IN  1 + matchCount(s, sub, first + Max(Len(sub), 1))

(***************************************************************************)
(* The entity store: loadMemory, saveMemory and the calls that change it    *)
(***************************************************************************)
\* No file at MEMORY_PATH.
NoFile == [type |-> "none"]

\* The content JSON.stringify(data) gives the file: the entities and the
\* relations.
memoryData(ents, rels) == [type |-> "file", entities |-> ents, relations |-> rels]

\* this.entities.has(name)
has(ents, name) == \E k \in 1..Len(ents) : ents[k].name = name

\* this.entities.get(name), for a name the Map has
get(ents, name) == ents[CHOOSE k \in 1..Len(ents) : ents[k].name = name]

\* this.entities.delete(name): the other entries keep their order
delete(ents, name) ==
    LET Other(e) == e.name # name
    IN  SelectSeq(ents, Other)

\* The filter keeping the relations that lead to the entity deleted.
relationsFromOnly(rels, name) ==
    LET Kept(rel) == rel.from # name
    IN  SelectSeq(rels, Kept)

\* this.relations.filter(rel => rel.from !== name && rel.to !== name)
relationsWithout(rels, name) ==
    LET Kept(rel) == rel.from # name /\ rel.to # name
    IN  SelectSeq(rels, Kept)

\* The callback filtering the relations by their from alone.
deleteEntityFromOnly(st, name) ==
    IF has(st.entities, name)
    THEN [entities |-> delete(st.entities, name),
          relations |-> relationsFromOnly(st.relations, name),
          deleted |-> Append(st.deleted, get(st.entities, name))]
    ELSE st

\* The forEach callback of deleteEntities for one name; st is the store and
\* the deleted array.
deleteEntity(st, name) ==
    IF has(st.entities, name)
    THEN [entities |-> delete(st.entities, name),
          relations |-> relationsWithout(st.relations, name),
          deleted |-> Append(st.deleted, get(st.entities, name))]
    ELSE st

\* The forEach of deleteEntities from the k-th name on.
RECURSIVE deleteFrom(_, _, _)
deleteFrom(entityNames, k, st) ==
    IF k > Len(entityNames) THEN st
    ELSE deleteFrom(entityNames, k + 1, deleteEntity(st, entityNames[k]))

\* The store after deleteEntities(entityNames), and the array it returns.
deleteEntities(entityNames) ==
    deleteFrom(entityNames, 1,
               [entities |-> entities, relations |-> relations, deleted |-> <<>>])

\* this.entities.set(entity.name, entity): a name the Map has keeps its place.
set(ents, entity) ==
    IF has(ents, entity.name)
    THEN [k \in 1..Len(ents) |-> IF ents[k].name = entity.name THEN entity ELSE ents[k]]
    ELSE Append(ents, entity)

\* The forEach of createEntities and of loadMemory from the k-th entity on.
RECURSIVE setFrom(_, _, _)
setFrom(ents, input, k) ==
    IF k > Len(input) THEN ents
    ELSE setFrom(set(ents, input[k]), input, k + 1)

\* The Map after the forEach of createEntities(input).
createEntities(ents, input) == setFrom(ents, input, 1)

\* What createEntities(input) returns once its saveMemory is over: the
\* entities the Map holds then under a name of the input.
createEntitiesResult(ents, input) ==
    LET Named(e) == \E i \in 1..Len(input) : input[i].name = e.name
    IN  SelectSeq(ents, Named)

\* this.relations after createRelations(input) pushed onto it.
createRelations(rels, input) ==
    rels \o [i \in 1..Len(input) |->
                [from |-> input[i].from, to |-> input[i].to,
                 relationType |-> input[i].relationType]]

\* entity.observations.push(...obs.contents) for the entity obs names, if any.
addObservation(ents, obs) ==
    [k \in 1..Len(ents) |->
        IF ents[k].name = obs.entityName
        THEN [ents[k] EXCEPT !.observations = @ \o obs.contents]
        ELSE ents[k]]

\* The forEach of addObservations from the k-th element on.
RECURSIVE addObservations(_, _, _)
addObservations(ents, observations, k) ==
    IF k > Len(observations) THEN ents
    ELSE addObservations(addObservation(ents, observations[k]), observations, k + 1)

\* observations.indexOf(o), 1-based, 0 for -1.
indexOfObservation(observations, o) ==
    IF \E i \in 1..Len(observations) : observations[i] = o
    THEN CHOOSE i \in 1..Len(observations) :
             /\ observations[i] = o
             /\ \A j \in 1..(i - 1) : observations[j] # o
    ELSE 0

\* arr.splice(index, 1), index 1-based
splice(arr, index) == SubSeq(arr, 1, index - 1) \o SubSeq(arr, index + 1, Len(arr))

\* The inner forEach of deleteObservations from the k-th text on.
RECURSIVE spliceObservations(_, _, _)
spliceObservations(observations, toDelete, k) ==
    IF k > Len(toDelete) THEN observations
    ELSE spliceObservations(
             IF indexOfObservation(observations, toDelete[k]) > 0
             THEN splice(observations, indexOfObservation(observations, toDelete[k]))
             ELSE observations,
             toDelete, k + 1)

\* The outer forEach callback of deleteObservations.
deleteObservation(ents, deletion) ==
    [k \in 1..Len(ents) |->
        IF ents[k].name = deletion.entityName
        THEN [ents[k] EXCEPT
                 !.observations = spliceObservations(@, deletion.observations, 1)]
        ELSE ents[k]]

\* The forEach of deleteObservations from the k-th deletion on.
RECURSIVE deleteObservations(_, _, _)
deleteObservations(ents, deletions, k) ==
    IF k > Len(deletions) THEN ents
    ELSE deleteObservations(deleteObservation(ents, deletions[k]), deletions, k + 1)

\* this.relations.findIndex(...), 1-based, 0 for -1.
findIndex(rels, relation) ==
    LET Same(rel) == /\ rel.from = relation.from
                     /\ rel.to = relation.to
                     /\ rel.relationType = relation.relationType
    IN  IF \E i \in 1..Len(rels) : Same(rels[i])
        THEN CHOOSE i \in 1..Len(rels) :
                 Same(rels[i]) /\ \A j \in 1..(i - 1) : ~Same(rels[j])
        ELSE 0

\* The forEach callback of deleteRelations; st is this.relations and deleted.
deleteRelation(st, relation) ==
    IF findIndex(st.relations, relation) > 0
    THEN [relations |-> splice(st.relations, findIndex(st.relations, relation)),
          deleted |-> Append(st.deleted, st.relations[findIndex(st.relations, relation)])]
    ELSE st

\* The forEach of deleteRelations from the k-th relation on.
RECURSIVE deleteRelations(_, _, _)
deleteRelations(st, input, k) ==
    IF k > Len(input) THEN st
    ELSE deleteRelations(deleteRelation(st, input[k]), input, k + 1)

\* saveMemory holds the entity objects and the relations array themselves
\* until JSON.stringify runs, after fs.mkdir: an object still in the Map is
\* written as it is then, one that left the Map as it was when it left.
StillStored(name) == [live |-> TRUE, name |-> name]
AsItWas(value) == [live |-> FALSE, value |-> value]

\* No call awaits the saveMemory.
Unawaited == [type |-> "none"]

\* saveMemory up to its first await: data is built from the Map and the array.
saveMemory(ents, awaited) ==
    [stage |-> "mkdir",
     entities |-> [k \in 1..Len(ents) |-> StillStored(ents[k].name)],
     relations |-> [live |-> TRUE],
     awaited |-> awaited]

\* The pending saves after the Map dropped or replaced the objects named
\* in names, and, if reassigned, after this.relations became another array;
\* ents and rels are the store before that.
detached(saves, ents, rels, names, reassigned) ==
    [i \in 1..Len(saves) |->
        IF saves[i].stage # "mkdir" THEN saves[i]
        ELSE [saves[i] EXCEPT
                 !.entities =
                     [k \in 1..Len(@) |->
                         IF @[k].live /\ @[k].name \in names
                         THEN AsItWas(get(ents, @[k].name))
                         ELSE @[k]],
                 !.relations = IF @.live /\ reassigned THEN AsItWas(rels) ELSE @]]

\* JSON.stringify(data) of a save past its fs.mkdir.
stringify(save, ents, rels) ==
    memoryData([k \in 1..Len(save.entities) |->
                   IF save.entities[k].live
                   THEN get(ents, save.entities[k].name)
                   ELSE save.entities[k].value],
               IF save.relations.live THEN rels ELSE save.relations.value)

(***************************************************************************)
(* levenshteinDistance, similarityRatio                                    *)
(***************************************************************************)
\* The minimum without the deletion term.
Min3NoDeletion(a, b, c) == Min(a, b)

Min3(a, b, c) == Min(a, Min(b, c))

\* Row i of the matrix from row i-1: row[j+1] is matrix[i][j].
RECURSIVE levRow(_, _, _, _, _)
levRow(prev, str1, str2, i, row) ==
    LET j == Len(row)
    IN  IF j > Len(str1) THEN row
        ELSE levRow(prev, str1, str2, i,
                 Append(row,
                    IF str2[i] = str1[j]
                    THEN prev[j]
                    ELSE Min3(prev[j] + 1, row[j] + 1, prev[j + 1] + 1)))

RECURSIVE levRows(_, _, _, _)
levRows(prev, str1, str2, i) ==
    IF i > Len(str2) THEN prev
    ELSE levRows(levRow(prev, str1, str2, i, <<i>>), str1, str2, i + 1)

levenshteinDistance(str1, str2) ==
    levRows([j \in 1..(Len(str1) + 1) |-> j - 1], str1, str2, 1)[Len(str1) + 1]

\* 1 - distance / maxLength; 0/0 is NaN when both strings are empty.
similarityRatio(str1, str2) ==
    LET distance == levenshteinDistance(toLowerCase(str1), toLowerCase(str2))
        maxLength == Max(Len(str1), Len(str2))
    IN  IF maxLength = 0 THEN NaN
        ELSE RatSub(RatInt(1), Rat(distance, maxLength))

(***************************************************************************)
(* getSearchableFields                                                     *)
(***************************************************************************)
\* getSearchableFields pushing the first observation only.
getSearchableFieldsFirstObservation(entity, fields) ==
    (IF "name" \in fields THEN <<entity.name>> ELSE <<>>)
    \o (IF "entityType" \in fields THEN <<entity.entityType>> ELSE <<>>)
    \o (IF "observations" \in fields
        THEN SubSeq(entity.observations, 1, Min(1, Len(entity.observations)))
        ELSE <<>>)

getSearchableFields(entity, fields) ==
    (IF "name" \in fields THEN <<entity.name>> ELSE <<>>)
    \o (IF "entityType" \in fields THEN <<entity.entityType>> ELSE <<>>)
    \o (IF "observations" \in fields THEN entity.observations ELSE <<>>)

(***************************************************************************)
(* calculateRelevanceScore                                                 *)
(***************************************************************************)
\* The scan covers the first MaxObservations observations.  The source's 100
\* is scaled down to 7 so that the model's entities can exceed it.
MaxObservations == 7
\* The scan stops once this many matching observations were found.
MaxFoundMatches == 5

\* The scoring state of calculateRelevanceScore before any criterion ran.
noMatch == [score |-> RatInt(0), matchedFields |-> <<>>, highlights |-> <<>>]

\* 60 + 30 * (1 - position / name.length), the coverage left out
partialNameScoreNoCoverage(entity, query) ==
    Rat(60 * Len(entity.name)
          + 30 * (Len(entity.name) - indexOf(toLowerCase(entity.name), toLowerCase(query))),
        Len(entity.name))

\* 60 + (30 * (1 - position / name.length)) * (query.length / name.length)
partialNameScore(entity, query) ==
    Rat(60 * Len(entity.name) * Len(entity.name)
          + 30 * (Len(entity.name) - indexOf(toLowerCase(entity.name), toLowerCase(query)))
               * Len(query),
        Len(entity.name) * Len(entity.name))

\* The scoring state acc with the field matched, its score added to acc's.
matchedSummed(acc, field, s, highlight) ==
    [score |-> RatAdd(acc.score, s),
     matchedFields |-> Append(acc.matchedFields, field),
     highlights |-> Append(acc.highlights, <<field, highlight>>)]

\* The scoring state acc with the field matched, at a score of at least s.
matched(acc, field, s, highlight) ==
    [score |-> RatMax(acc.score, s),
     matchedFields |-> Append(acc.matchedFields, field),
     highlights |-> Append(acc.highlights, <<field, highlight>>)]

\* The name criterion without its branch for equal names.
nameCriterionContainsOnly(acc, entity, query) ==
    IF includes(toLowerCase(entity.name), toLowerCase(query))
    THEN matched(acc, "name", partialNameScore(entity, query), <<query>>)
    ELSE acc

\* The name matching logic.
nameCriterion(acc, entity, query) ==
    IF toLowerCase(entity.name) = toLowerCase(query)
    THEN matched(acc, "name", RatInt(100), <<query>>)
    ELSE IF includes(toLowerCase(entity.name), toLowerCase(query))
    THEN matched(acc, "name", partialNameScore(entity, query), <<query>>)
    ELSE acc

\* The entity type matching logic.
typeCriterion(acc, entity, query) ==
    IF toLowerCase(entity.entityType) = toLowerCase(query)
    THEN matched(acc, "entityType", RatInt(85), <<query>>)
    ELSE IF includes(toLowerCase(entity.entityType), toLowerCase(query))
    THEN matched(acc, "entityType", RatInt(70), <<query>>)
    ELSE acc

\* 20 + Math.min(30, termFrequency * 10)
obsScore(obs, queryLower) == RatInt(20 + Min(30, matchCount(obs, queryLower, 0) * 10))

\* The observation loop without its stop after MaxFoundMatches matches.
RECURSIVE observationLoopUncapped(_, _, _, _, _)
observationLoopUncapped(observations, queryLower, i, score, matchedObservations) ==
    IF ~(i < Min(Len(observations), MaxObservations))
    THEN [score |-> score, matchedObservations |-> matchedObservations]
    ELSE IF includes(toLowerCase(observations[i + 1]), queryLower)
    THEN observationLoopUncapped(observations, queryLower, i + 1,
             RatMax(score, obsScore(toLowerCase(observations[i + 1]), queryLower)),
             Append(matchedObservations, i))
    ELSE observationLoopUncapped(observations, queryLower, i + 1, score,
                                 matchedObservations)

\* The observation loop from index i on: the score and the matched indices.
RECURSIVE observationLoop(_, _, _, _, _)
observationLoop(observations, queryLower, i, score, matchedObservations) ==
    IF ~(i < Min(Len(observations), MaxObservations)
         /\ Len(matchedObservations) < MaxFoundMatches)
    THEN [score |-> score, matchedObservations |-> matchedObservations]
    ELSE IF includes(toLowerCase(observations[i + 1]), queryLower)
    THEN observationLoop(observations, queryLower, i + 1,
             RatMax(score, obsScore(toLowerCase(observations[i + 1]), queryLower)),
             Append(matchedObservations, i))
    ELSE observationLoop(observations, queryLower, i + 1, score, matchedObservations)

\* acc after the observation loop ended with scan.
observationsMatched(acc, scan) ==
    IF Len(scan.matchedObservations) > 0
    THEN matched(acc, "observations", scan.score, scan.matchedObservations)
    ELSE acc

\* The observation matching logic.
observationCriterion(acc, entity, query) ==
    observationsMatched(acc,
        observationLoop(entity.observations, toLowerCase(query), 0, acc.score, <<>>))

\* The object returned, without the fuzzy penalty.
scoringResultUnpenalised(acc, matchType) ==
    [score |-> acc.score,
     matchedFields |-> acc.matchedFields,
     highlights |-> [f \in {acc.highlights[k][1] : k \in 1..Len(acc.highlights)} |->
                        LET k == CHOOSE k \in 1..Len(acc.highlights) :
                                     acc.highlights[k][1] = f
                        IN  acc.highlights[k][2]],
     matchType |-> matchType]

\* The fuzzy penalty, and the object returned.
scoringResult(acc, matchType) ==
    [score |-> IF matchType = "fuzzy" THEN RatMul(acc.score, Rat(8, 10)) ELSE acc.score,
     matchedFields |-> acc.matchedFields,
     highlights |-> [f \in {acc.highlights[k][1] : k \in 1..Len(acc.highlights)} |->
                        LET k == CHOOSE k \in 1..Len(acc.highlights) :
                                     acc.highlights[k][1] = f
                        IN  acc.highlights[k][2]],
     matchType |-> matchType]

calculateRelevanceScore(entity, query, matchType) ==
    scoringResult(
        observationCriterion(
            typeCriterion(nameCriterion(noMatch, entity, query), entity, query),
            entity, query),
        matchType)

(***************************************************************************)
(* performFuzzySearch                                                      *)
(***************************************************************************)
\* An entity with its _searchMeta.
withMeta(entity, searchMeta) ==
    [name |-> entity.name,
     entityType |-> entity.entityType,
     observations |-> entity.observations,
     searchMeta |-> searchMeta]

\* [maxSimilarity, bestField] after a field of similarity sim was looked at.
better(best, field, sim) ==
    IF RatGT(sim, best.maxSimilarity)
    THEN [maxSimilarity |-> sim, bestField |-> field]
    ELSE best

\* The most similar of the name and the entity type, whatever fields are asked for.
bestSimilarityAnyField(entity, query, fields) ==
    better(better([maxSimilarity |-> RatInt(0), bestField |-> ""],
                  "name", similarityRatio(query, entity.name)),
           "entityType", similarityRatio(query, entity.entityType))

\* The most similar of the name and the entity type, among the fields asked for.
bestSimilarity(entity, query, fields) ==
    LET start == [maxSimilarity |-> RatInt(0), bestField |-> ""]
        byName == IF "name" \in fields
                  THEN better(start, "name", similarityRatio(query, entity.name))
                  ELSE start
    IN  IF "entityType" \in fields
        THEN better(byName, "entityType", similarityRatio(query, entity.entityType))
        ELSE byName

\* The scoring result of a fuzzy match with the similarity applied.
fuzzyMeta(result, best) ==
    [score |-> RatMul(result.score, best.maxSimilarity),
     matchedFields |-> result.matchedFields,
     highlights |-> result.highlights,
     matchType |-> result.matchType,
     fuzzyMatch |-> TRUE,
     similarity |-> best.maxSimilarity,
     bestField |-> best.bestField]

\* The callback pushing only above the threshold, not at it.
fuzzyMatchForAbove(entity, query, threshold, best) ==
    IF RatGT(best.maxSimilarity, threshold)
    THEN <<withMeta(entity,
                    fuzzyMeta(calculateRelevanceScore(entity, query, "fuzzy"), best))>>
    ELSE <<>>

\* The callback pushing the entities that are not above the threshold.
fuzzyMatchForBelow(entity, query, threshold, best) ==
    IF RatLE(best.maxSimilarity, threshold)
    THEN <<withMeta(entity,
                    fuzzyMeta(calculateRelevanceScore(entity, query, "fuzzy"), best))>>
    ELSE <<>>

\* What the forEach callback pushes for an entity whose best similarity is best.
fuzzyMatchFor(entity, query, threshold, best) ==
    IF RatGE(best.maxSimilarity, threshold)
    THEN <<withMeta(entity,
                    fuzzyMeta(calculateRelevanceScore(entity, query, "fuzzy"), best))>>
    ELSE <<>>

\* The forEach callback for one entity: nothing or one fuzzy match.
fuzzyMatchOf(entity, query, fields, threshold) ==
    fuzzyMatchFor(entity, query, threshold, bestSimilarity(entity, query, fields))

RECURSIVE fuzzyFrom(_, _, _, _, _)
fuzzyFrom(ents, k, query, fields, threshold) ==
    IF k > Len(ents) THEN <<>>
    ELSE fuzzyMatchOf(ents[k], query, fields, threshold)
         \o fuzzyFrom(ents, k + 1, query, fields, threshold)

performFuzzySearch(query, fields, threshold) ==
    fuzzyFrom(entities, 1, query, fields, threshold)

(***************************************************************************)
(* Array.prototype.sort with the comparator of searchNodes                 *)
(***************************************************************************)
\* Two characters beyond the letters: the model's stand-ins for U+00E9 (e with
\* acute, one code unit) and U+0301 (combining acute accent).
EAcute == "@"
CombiningAcute == "'"

\* The canonical decomposition of a string: U+00E9 becomes e, U+0301.
RECURSIVE decompose(_)
decompose(str) ==
    IF str = <<>> THEN <<>>
    ELSE IF Head(str) = EAcute THEN <<"e", CombiningAcute>> \o decompose(Tail(str))
    ELSE <<Head(str)>> \o decompose(Tail(str))

\* Primary collation weight of a character: blank before letters, case ignored.
CharRank(c) ==
    CASE LowerChar(c) = " " -> 0
      [] LowerChar(c) = "a" -> 1
      [] LowerChar(c) = "b" -> 2
      [] LowerChar(c) = "e" -> 3
      [] LowerChar(c) = "t" -> 4
      [] OTHER -> 5

\* Tertiary weight: a lower-case letter before its upper-case form.
CaseRank(c) == IF LowerChar(c) = c THEN 0 ELSE 1

\* Lexicographic comparison of two sequences of weights: -1, 0 or 1.
RECURSIVE lexCompare(_, _)
lexCompare(a, b) ==
    IF a = <<>> /\ b = <<>> THEN 0
    ELSE IF a = <<>> THEN -1
    ELSE IF b = <<>> THEN 1
    ELSE IF Head(a) < Head(b) THEN -1
    ELSE IF Head(a) > Head(b) THEN 1
    ELSE lexCompare(Tail(a), Tail(b))

\* The letters of a decomposed string, its accents left out.
letters(str) == SelectSeq(str, LAMBDA c : c # CombiningAcute)

\* The comparison of two decomposed strings: letters first, then accents,
\* then case.
collate(a, b) ==
    IF lexCompare([i \in 1..Len(letters(a)) |-> CharRank(letters(a)[i])],
                  [i \in 1..Len(letters(b)) |-> CharRank(letters(b)[i])]) # 0
    THEN lexCompare([i \in 1..Len(letters(a)) |-> CharRank(letters(a)[i])],
                    [i \in 1..Len(letters(b)) |-> CharRank(letters(b)[i])])
    ELSE IF lexCompare([i \in 1..Len(a) |-> IF a[i] = CombiningAcute THEN 1 ELSE 0],
                       [i \in 1..Len(b) |-> IF b[i] = CombiningAcute THEN 1 ELSE 0]) # 0
    THEN lexCompare([i \in 1..Len(a) |-> IF a[i] = CombiningAcute THEN 1 ELSE 0],
                    [i \in 1..Len(b) |-> IF b[i] = CombiningAcute THEN 1 ELSE 0])
    ELSE lexCompare([i \in 1..Len(a) |-> CaseRank(a[i])],
                    [i \in 1..Len(b) |-> CaseRank(b[i])])

\* a.localeCompare(b): canonically equivalent strings compare as equal.
localeCompare(a, b) == collate(decompose(a), decompose(b))

\* The comparator without its tie-break by name.
compareScoresOnly(a, b) ==
    LET scoreDiff == RatSub(b.searchMeta.score, a.searchMeta.score)
    IN  IF IsNaN(scoreDiff) THEN 0
        ELSE IF scoreDiff.num > 0 THEN 1
        ELSE IF scoreDiff.num < 0 THEN -1
        ELSE 0

\* (a, b) => scoreDiff !== 0 ? scoreDiff : a.name.localeCompare(b.name), as a sign
compareResults(a, b) ==
    LET scoreDiff == RatSub(b.searchMeta.score, a.searchMeta.score)
    IN  IF IsNaN(scoreDiff) THEN 0
        ELSE IF scoreDiff.num > 0 THEN 1
        ELSE IF scoreDiff.num < 0 THEN -1
        ELSE localeCompare(a.name, b.name)

\* x put into the sequence sorted at position at.
insertAt(sorted, x, at) ==
    SubSeq(sorted, 1, at - 1) \o <<x>> \o SubSeq(sorted, at, Len(sorted))

\* The least of the positions, or the position after the last element.
firstOf(positions, sorted) ==
    IF positions = {} THEN Len(sorted) + 1
    ELSE CHOOSE k \in positions : \A m \in positions : k <= m

\* x put into the sorted sequence before the first element it precedes.
insertSorted(sorted, x) ==
    insertAt(sorted, x,
        firstOf({k \in 1..Len(sorted) : compareResults(x, sorted[k]) < 0}, sorted))

\* The stable sort of arr.
RECURSIVE sortFrom(_, _, _)
sortFrom(arr, k, sorted) ==
    IF k > Len(arr) THEN sorted
    ELSE sortFrom(arr, k + 1, insertSorted(sorted, arr[k]))

sort(arr) == sortFrom(arr, 1, <<>>)

\* slice keeping one element more than asked.
sliceInclusive(arr, end) == SubSeq(arr, 1, Min(end + 1, Len(arr)))

\* arr.slice(0, end)
slice(arr, end) ==
    LET to == IF end < 0 THEN Max(Len(arr) + end, 0) ELSE Min(end, Len(arr))
    IN  SubSeq(arr, 1, to)

(***************************************************************************)
(* searchNodes                                                             *)
(***************************************************************************)
AllFields == {"name", "entityType", "observations"}
DefaultLimit == 50
DefaultMinScore == 0
DefaultFuzzyThreshold == Rat(7, 10)
\* Queries longer than this are cut to it.  The source's 1000 is scaled
\* down to 3 so that the bounded strings of the model exceed it.
MaxQueryLength == 3
\* The fuzzy pass runs when the exact pass kept fewer results than this.
FewResults == 5

Option(o, key, default) == IF key \in DOMAIN o THEN o[key] ELSE default

\* The destructuring of params: a string p stands for { query: p }.
destructure(p) ==
    LET o == IF p.type = "string" THEN [query |-> p.value] ELSE p.value
    IN  [hasQuery |-> "query" \in DOMAIN o,
         query |-> Option(o, "query", <<>>),
         fields |-> Option(o, "fields", AllFields),
         limit |-> Option(o, "limit", DefaultLimit),
         minScore |-> Option(o, "minScore", DefaultMinScore),
         fuzzy |-> Option(o, "fuzzy", TRUE),
         fuzzyThreshold |-> Option(o, "fuzzyThreshold", DefaultFuzzyThreshold)]

\* if (scoringResult.score >= minScore) results.push(...)
exactMatchFor(entity, result, minScore) ==
    IF RatGE(result.score, RatInt(minScore))
    THEN <<withMeta(entity, result)>>
    ELSE <<>>

\* The callback of the exact pass looking at the name only.
exactMatchOfName(entity, truncatedQuery, fields, minScore) ==
    IF includes(toLowerCase(entity.name), toLowerCase(truncatedQuery))
    THEN exactMatchFor(entity,
                       calculateRelevanceScore(entity, truncatedQuery, "exact"),
                       minScore)
    ELSE <<>>

\* The forEach callback of the exact pass for one entity: nothing or one result.
exactMatchOf(entity, truncatedQuery, fields, minScore) ==
    IF includes(toLowerCase(join(getSearchableFields(entity, fields))),
                toLowerCase(truncatedQuery))
    THEN exactMatchFor(entity,
                       calculateRelevanceScore(entity, truncatedQuery, "exact"),
                       minScore)
    ELSE <<>>

\* The exact pass from entity k on.
RECURSIVE exactFrom(_, _, _, _, _)
exactFrom(ents, k, truncatedQuery, fields, minScore) ==
    IF k > Len(ents) THEN <<>>
    ELSE exactMatchOf(ents[k], truncatedQuery, fields, minScore)
         \o exactFrom(ents, k + 1, truncatedQuery, fields, minScore)

\* The merge without the search for a result of the same name.
RECURSIVE mergeFuzzyDuplicating(_, _, _, _)
mergeFuzzyDuplicating(results, fuzzyResults, k, minScore) ==
    IF k > Len(fuzzyResults) THEN results
    ELSE LET fuzzyMatch == fuzzyResults[k]
             push == RatGE(fuzzyMatch.searchMeta.score, RatInt(minScore))
         IN  mergeFuzzyDuplicating(IF push THEN Append(results, fuzzyMatch) ELSE results,
                                   fuzzyResults, k + 1, minScore)

\* The merge without the minScore filter on fuzzy matches.
RECURSIVE mergeFuzzyUnfiltered(_, _, _, _)
mergeFuzzyUnfiltered(results, fuzzyResults, k, minScore) ==
    IF k > Len(fuzzyResults) THEN results
    ELSE LET fuzzyMatch == fuzzyResults[k]
             found == \E r \in 1..Len(results) : results[r].name = fuzzyMatch.name
         IN  mergeFuzzyUnfiltered(IF found THEN results ELSE Append(results, fuzzyMatch),
                                  fuzzyResults, k + 1, minScore)

\* The forEach over fuzzyResults from index k on, pushing onto results.
RECURSIVE mergeFuzzy(_, _, _, _)
mergeFuzzy(results, fuzzyResults, k, minScore) ==
    IF k > Len(fuzzyResults) THEN results
    ELSE LET fuzzyMatch == fuzzyResults[k]
             found == \E r \in 1..Len(results) : results[r].name = fuzzyMatch.name
             push == ~found /\ RatGE(fuzzyMatch.searchMeta.score, RatInt(minScore))
         IN  mergeFuzzy(IF push THEN Append(results, fuzzyMatch) ELSE results,
                        fuzzyResults, k + 1, minScore)

RECURSIVE sumScores(_)
sumScores(rs) ==
    IF rs = <<>> THEN RatInt(0)
    ELSE RatAdd(Head(rs).searchMeta.score, sumScores(Tail(rs)))

\* The validation without the trim.
invalidQueryUntrimmed(d) == ~d.hasQuery \/ d.query = <<>>

\* !query || query.trim() === ''
invalidQuery(d) == ~d.hasQuery \/ d.query = <<>> \/ trim(d.query) = <<>>

\* The fallback run whenever the fuzzy option is on.
fuzzyFallbackAlways(fuzzy, results) == fuzzy

\* if (fuzzy && results.length < 5)
fuzzyFallback(fuzzy, results) == fuzzy /\ Len(results) < FewResults

\* The query left as it is, whatever its length.
truncateNever(query) == query

\* query.length > 1000 ? query.substring(0, 1000) : query
truncate(query) ==
    IF Len(query) > MaxQueryLength
    THEN substring(query, 0, MaxQueryLength)
    ELSE query

\* The fuzzy fallback and the sort, after the exact pass kept exactResults.
afterExact(d, truncatedQuery, exactResults) ==
    [truncatedQuery |-> truncatedQuery,
     exactCount |-> Len(exactResults),
     results |-> sort(IF fuzzyFallback(d.fuzzy, exactResults)
                      THEN mergeFuzzy(exactResults,
                                      performFuzzySearch(truncatedQuery, d.fields,
                                                         d.fuzzyThreshold),
                                      1, d.minScore)
                      ELSE exactResults)]

\* The exact pass and what follows it, for the truncated query.
afterTruncate(d, truncatedQuery) ==
    afterExact(d, truncatedQuery,
               exactFrom(entities, 1, truncatedQuery, d.fields, d.minScore))

\* The working set of a run that passed the validation: the locals up to the
\* sort.  d is the destructured argument.
workingSet(d) == afterTruncate(d, truncate(d.query))

\* fuzzyUsed computed over the results that are returned.
fuzzyUsedReturned(fuzzy, results, limitedResults) ==
    fuzzy /\ \E r \in 1..Len(limitedResults) :
                 limitedResults[r].searchMeta.matchType = "fuzzy"

\* metadata.fuzzyUsed
fuzzyUsed(fuzzy, results, limitedResults) ==
    fuzzy /\ \E r \in 1..Len(results) : results[r].searchMeta.matchType = "fuzzy"

\* The metadata with topScore and averageScore taken over all the matches.
metadataOverMatches(d, w, limitedResults) ==
    [totalMatches |-> Len(w.results),
     returnedCount |-> Len(limitedResults),
     query |-> w.truncatedQuery,
     fuzzyUsed |-> fuzzyUsed(d.fuzzy, w.results, limitedResults),
     topScore |-> IF Len(w.results) > 0
                  THEN w.results[1].searchMeta.score
                  ELSE RatInt(0),
     averageScore |-> IF Len(w.results) > 0
                      THEN RatMul(sumScores(w.results), Rat(1, Len(w.results)))
                      ELSE RatInt(0)]

\* The metadata object (executionTimeMs, a clock reading, is left out).
metadataOf(d, w, limitedResults) ==
    [totalMatches |-> Len(w.results),
     returnedCount |-> Len(limitedResults),
     query |-> w.truncatedQuery,
     fuzzyUsed |-> fuzzyUsed(d.fuzzy, w.results, limitedResults),
     topScore |-> IF Len(limitedResults) > 0
                  THEN limitedResults[1].searchMeta.score
                  ELSE RatInt(0),
     averageScore |-> IF Len(limitedResults) > 0
                      THEN RatMul(sumScores(limitedResults),
                                  Rat(1, Len(limitedResults)))
                      ELSE RatInt(0)]

\* The locals of a run that returns limitedResults.
limited(d, w, limitedResults) ==
    [valid |-> TRUE,
     truncatedQuery |-> w.truncatedQuery,
     exactCount |-> w.exactCount,
     results |-> w.results,
     limitedResults |-> limitedResults,
     metadata |-> metadataOf(d, w, limitedResults)]

\* The limit applied to the working set w, and the metadata.
applyLimit(d, w) == limited(d, w, slice(w.results, d.limit))

ErrorEmptyQuery == "Query cannot be empty"

\* The value the validation returns for an empty query.
emptyQueryResponse(d) ==
    [results |-> <<>>,
     metadata |->
        [totalMatches |-> 0,
         returnedCount |-> 0,
         query |-> d.query,
         fuzzyUsed |-> FALSE,
         topScore |-> RatInt(0),
         averageScore |-> RatInt(0),
         error |-> ErrorEmptyQuery]]

\* The value a run with argument p and locals l returns: an array or an
\* object, tagged with its type (executionTimeMs, a clock reading, is left out).
returnValue(p, l) ==
    IF ~l.valid
    THEN [type |-> "object", value |-> emptyQueryResponse(destructure(p))]
    ELSE IF p.type = "string"
    THEN [type |-> "array", value |-> l.limitedResults]
    ELSE [type |-> "object",
          value |-> [results |-> l.limitedResults, metadata |-> l.metadata]]

\* The locals of a run of searchNodes(p) when it returns, given its working set.
localsOf(p, w) ==
    IF invalidQuery(destructure(p)) THEN [valid |-> FALSE]
    ELSE applyLimit(destructure(p), w)

searchLocals(p) == localsOf(p, workingSet(destructure(p)))

searchNodes(p) == returnValue(p, searchLocals(p))

(***************************************************************************)
(* The stores and the calls explored                                       *)
(***************************************************************************)
s_ab == <<"a", "b">>
s_AB == <<"A", "B">>
s_Abb == <<"A", "b", "b">>
s_bab == <<"b", "a", "b">>
s_aab == <<"a", "a", "b">>
s_abab == <<"a", "b", "a", "b">>
s_ababbb == <<"a", "b", "a", "b", "b", "b">>
s_x == <<"x">>
s_ax == <<"a", "x">>
s_bb == <<"b", "b">>
s_bx == <<"b", "x">>
s_t == <<"t">>
s_b_a == <<"b", " ", "a">>
s_ab_ab == <<"a", "b", " ", "a", "b">>
s_blank == <<" ">>
s_eacute == <<EAcute>>
s_e_acute == <<"e", CombiningAcute>>

Entity(name, entityType, observations) ==
    [name |-> name, entityType |-> entityType, observations |-> observations]

\* Entities with distinct names, from which the stores are drawn.
Universe ==
    << Entity(s_ab, s_t, <<>>),
       Entity(s_Abb, s_t, <<s_x, s_ab_ab>>),
       Entity(s_bab, s_t, <<>>),
       Entity(s_aab, s_t, <<s_bb>>),
       Entity(s_x, s_t, <<s_AB>>),
       Entity(s_ax, s_ab, <<>>),
       Entity(s_bb, s_AB, <<>>),
       Entity(s_abab, s_bx, <<s_b_a>>) >>

\* One entity whose only matching observation lies beyond the scanned ones.
DeepEntity ==
    Entity(s_bx, s_t, [i \in 1..(MaxObservations + 1) |->
                          IF i > MaxObservations THEN s_ab ELSE s_x])

\* One entity with more than MaxFoundMatches matching observations among the
\* scanned ones.
ManyMatches ==
    Entity(s_x, s_t, [i \in 1..(MaxFoundMatches + 1) |-> s_ab])

\* The small stores hold at most MaxEntities entities, in any order.
MaxEntities == 2

\* The entities the small stores are drawn from: those with observations.
Drawn == {k \in 1..Len(Universe) : Universe[k].observations # <<>>}

RECURSIVE StoresOfSize(_)
StoresOfSize(n) ==
    IF n = 0 THEN {<<>>}
    ELSE {Append(st, Universe[k]) : st \in StoresOfSize(n - 1), k \in Drawn}

DistinctNames(st) ==
    \A i, j \in 1..Len(st) : st[i].name = st[j].name => i = j

SmallStores ==
    {st \in UNION {StoresOfSize(n) : n \in 0..MaxEntities} : DistinctNames(st)}

\* All of the Universe but its last entity, in both orders, the deep entity,
\* the entity with many matching observations, and two entities whose names
\* are canonically equivalent, in both orders.
LargeStores ==
    LET most == SubSeq(Universe, 1, Len(Universe) - 1)
    IN  { most,
          [i \in 1..Len(most) |-> most[Len(most) + 1 - i]],
          <<DeepEntity, Universe[1]>>,
          <<ManyMatches>>,
          <<Entity(s_eacute, s_t, <<>>), Entity(s_e_acute, s_t, <<>>)>>,
          <<Entity(s_e_acute, s_t, <<>>), Entity(s_eacute, s_t, <<>>)>> }

Stores == SmallStores \cup LargeStores

Queries == {s_AB, s_t, s_b_a, s_abab, s_ababbb, <<>>, s_blank}
FieldSets == {AllFields, {"name"}, {"entityType"}, {"name", "observations"}}
Limits == {1, 2, DefaultLimit}
MinScores == {0, 31, 100}
Thresholds == {Rat(1, 2), DefaultFuzzyThreshold}


Relation(from, to) == [from |-> from, to |-> to, relationType |-> <<"r">>]

\* The relations of the memory file; a relation may name an entity that is
\* not stored, since createRelations does not look its names up.
InitialRelations ==
    << Relation(s_x, s_Abb), Relation(s_Abb, s_aab), Relation(s_aab, s_ab),
       Relation(s_x, s_x) >>

\* The arguments of deleteEntities: s_t names no entity.
EntityNames == {<<s_x>>, <<s_t, s_Abb>>, <<s_x, s_aab, s_x>>}

\* The arguments of the other calls that change the store.
EntitiesToCreate == {<<Entity(s_x, s_ab, <<s_bb, s_bb>>)>>}
RelationsToCreate == {<<Relation(s_x, s_bb)>>}
ObservationsToAdd == {<<[entityName |-> s_x, contents |-> <<s_AB>>]>>}
ObservationsToDelete ==
    {<<[entityName |-> s_x, observations |-> <<s_AB>>]>>,
     <<[entityName |-> s_Abb, observations |-> <<s_x, s_ab_ab, s_t>>]>>}
RelationsToDelete == {<<Relation(s_x, s_Abb), Relation(s_bb, s_x)>>}

\* The stores the calls that change the store start from.
StoresToChange ==
    {<<>>, <<Universe[5]>>, <<Universe[2], Universe[5]>>, <<Universe[5], Universe[4]>>}

\* At most this many saveMemory calls are started.
MaxSaves == 2

NoCall == [type |-> "none"]

(***************************************************************************)
(* The specification                                                       *)
(***************************************************************************)
\* The store as loaded from the memory file; no call is being handled.
Init ==
    /\ entities \in Stores
    /\ relations = InitialRelations
    /\ params = NoCall
    /\ local = [valid |-> FALSE]
    /\ returned = NoCall
    /\ memoryFile = memoryData(entities, relations)
    /\ saving = <<>>
    /\ loading = FALSE

\* A run of searchNodes(p) that attaches _searchMeta to the stored entities
\* themselves.
SearchInPlace(p, w) ==
    /\ returned = NoCall
    /\ params' = p
    /\ local' = localsOf(p, w)
    /\ returned' = returnValue(p, local')
    /\ entities' =
          [k \in 1..Len(entities) |->
              IF local'.valid /\ \E i \in 1..Len(local'.results) :
                                    local'.results[i].name = entities[k].name
              THEN local'.results[CHOOSE i \in 1..Len(local'.results) :
                                     local'.results[i].name = entities[k].name]
              ELSE entities[k]]
    /\ UNCHANGED <<relations, memoryFile, saving, loading>>

\* One run of searchNodes(p), up to its return; w is its working set.
Search(p, w) ==
    /\ returned = NoCall
    /\ params' = p
    /\ local' = localsOf(p, w)
    /\ returned' = returnValue(p, local')
    /\ UNCHANGED <<entities, relations, memoryFile, saving, loading>>

ObjectArg(o) == [type |-> "object", value |-> o]
StringArg(q) == [type |-> "string", value |-> q]

\* search_nodes with an options object giving every option.
SearchNodes ==
    \E q \in Queries, f \in FieldSets, m \in MinScores, fz \in BOOLEAN, t \in Thresholds :
        LET o == [query |-> q, fields |-> f, minScore |-> m, fuzzy |-> fz,
                  fuzzyThreshold |-> t, limit |-> DefaultLimit]
            w == workingSet(o)
        IN  \E lim \in Limits : Search(ObjectArg([o EXCEPT !.limit = lim]), w)

\* search_nodes with { query } alone, the other options at their defaults.
SearchNodesDefaults ==
    \E q \in Queries :
        LET p == ObjectArg([query |-> q])
        IN  Search(p, workingSet(destructure(p)))

\* The legacy call with a bare query string.
SearchNodesString ==
    \E q \in Queries :
        LET p == StringArg(q)
        IN  Search(p, workingSet(destructure(p)))

\* The caller takes the returned value; the server is idle again.
Return ==
    /\ returned # NoCall
    /\ params' = NoCall
    /\ local' = [valid |-> FALSE]
    /\ returned' = NoCall
    /\ UNCHANGED <<entities, relations, memoryFile, saving, loading>>

Next == SearchNodes \/ SearchNodesDefaults \/ SearchNodesString \/ Return

Spec == Init /\ [][Next]_vars

(***************************************************************************)
(* The string helpers applied to arguments of their own                    *)
(***************************************************************************)
Alphabet == {"a", "b", "A"}
MaxStringLength == 3

RECURSIVE StringsOfLength(_)
StringsOfLength(n) ==
    IF n = 0 THEN {<<>>}
    ELSE {Append(str, c) : str \in StringsOfLength(n - 1), c \in Alphabet}

StringsUpTo(n) == UNION {StringsOfLength(k) : k \in 0..n}

\* The server with an empty store and two strings to pass to a helper.
HelperInit ==
    /\ entities = <<>>
    /\ relations = <<>>
    /\ params \in {[type |-> "strings", str1 |-> a, str2 |-> b] :
                      a \in StringsUpTo(MaxStringLength),
                      b \in StringsUpTo(MaxStringLength)}
    /\ local = [valid |-> FALSE]
    /\ returned = NoCall
    /\ memoryFile = NoFile
    /\ saving = <<>>
    /\ loading = FALSE

\* levenshteinDistance(str1, str2) is called and returns.
LevenshteinDistance ==
    /\ returned = NoCall
    /\ returned' = [type |-> "distance",
                    value |-> levenshteinDistance(params.str1, params.str2)]
    /\ UNCHANGED <<entities, relations, params, local, memoryFile, saving, loading>>

\* similarityRatio(str1, str2) is called and returns.
SimilarityRatio ==
    /\ returned = NoCall
    /\ returned' = [type |-> "ratio",
                    value |-> similarityRatio(params.str1, params.str2)]
    /\ UNCHANGED <<entities, relations, params, local, memoryFile, saving, loading>>

HelperNext == LevenshteinDistance \/ SimilarityRatio

HelperSpec == HelperInit /\ [][HelperNext]_vars

(***************************************************************************)
(* The store under the calls that change it                                *)
(***************************************************************************)
\* The store as loaded from the memory file, a small one.
StoreInit == Init /\ entities \in StoresToChange

\* The server takes a call that changes the store.
Idle == returned = NoCall /\ Len(saving) < MaxSaves

\* A create_entities call up to its await of saveMemory.
CreateEntities ==
    \E input \in EntitiesToCreate :
        /\ Idle
        /\ params' = [type |-> "entities", value |-> input]
        /\ entities' = createEntities(entities, input)
        /\ saving' = Append(detached(saving, entities, relations,
                                     {input[i].name : i \in 1..Len(input)}
                                        \cap {entities[k].name : k \in 1..Len(entities)},
                                     FALSE),
                            saveMemory(entities', params'))
        /\ UNCHANGED <<relations, local, returned, memoryFile, loading>>

\* A create_entities call resumes after its saveMemory and returns.
CreateEntitiesReturn ==
    \E i \in 1..Len(saving) :
        /\ returned = NoCall
        /\ saving[i].stage \in {"finished", "failed"}
        /\ saving[i].awaited # Unawaited
        /\ params' = saving[i].awaited
        /\ returned' = [type |-> "created",
                        value |-> createEntitiesResult(entities, saving[i].awaited.value)]
        /\ saving' = [saving EXCEPT ![i].awaited = Unawaited]
        /\ UNCHANGED <<entities, relations, local, memoryFile, loading>>

\* One create_relations call, up to its return.
CreateRelations ==
    \E input \in RelationsToCreate :
        /\ Idle
        /\ params' = [type |-> "relations", value |-> input]
        /\ relations' = createRelations(relations, input)
        /\ saving' = Append(saving, saveMemory(entities, Unawaited))
        /\ returned' = [type |-> "relations", value |-> input]
        /\ UNCHANGED <<entities, local, memoryFile, loading>>

\* One add_observations call, up to its return.
AddObservations ==
    \E input \in ObservationsToAdd :
        /\ Idle
        /\ params' = [type |-> "observations", value |-> input]
        /\ entities' = addObservations(entities, input, 1)
        /\ saving' = Append(saving, saveMemory(entities', Unawaited))
        /\ returned' = [type |-> "observations", value |-> input]
        /\ UNCHANGED <<relations, local, memoryFile, loading>>

\* One delete_entities call, up to its return.
DeleteEntities ==
    \E entityNames \in EntityNames :
        /\ Idle
        /\ params' = [type |-> "entityNames", value |-> entityNames]
        /\ entities' = deleteEntities(entityNames).entities
        /\ relations' = deleteEntities(entityNames).relations
        /\ returned' = [type |-> "deleted", value |-> deleteEntities(entityNames).deleted]
        /\ saving' = Append(detached(saving, entities, relations,
                                     {returned'.value[i].name : i \in 1..Len(returned'.value)},
                                     returned'.value # <<>>),
                            saveMemory(entities', Unawaited))
        /\ UNCHANGED <<local, memoryFile, loading>>

\* One delete_observations call, up to its return.
DeleteObservations ==
    \E deletions \in ObservationsToDelete :
        /\ Idle
        /\ params' = [type |-> "deletions", value |-> deletions]
        /\ entities' = deleteObservations(entities, deletions, 1)
        /\ saving' = Append(saving, saveMemory(entities', Unawaited))
        /\ returned' = [type |-> "deletions", value |-> deletions]
        /\ UNCHANGED <<relations, local, memoryFile, loading>>

\* One delete_relations call, up to its return.
DeleteRelations ==
    \E input \in RelationsToDelete :
        /\ Idle
        /\ params' = [type |-> "relations", value |-> input]
        /\ relations' = deleteRelations([relations |-> relations, deleted |-> <<>>],
                                        input, 1).relations
        /\ returned' = [type |-> "deletedRelations",
                        value |-> deleteRelations([relations |-> relations,
                                                   deleted |-> <<>>], input, 1).deleted]
        /\ saving' = Append(saving, saveMemory(entities, Unawaited))
        /\ UNCHANGED <<entities, local, memoryFile, loading>>

\* fs.mkdir of a saveMemory call is over: the data is made the text to write.
Mkdir ==
    \E i \in 1..Len(saving) :
        /\ saving[i].stage = "mkdir"
        /\ saving' = [saving EXCEPT
                         ![i] = [stage |-> "write",
                                 text |-> stringify(saving[i], entities, relations),
                                 awaited |-> saving[i].awaited]]
        /\ UNCHANGED <<entities, relations, params, local, returned, memoryFile, loading>>

\* fs.writeFile of a saveMemory call is over.
WriteFile ==
    \E i \in 1..Len(saving) :
        /\ saving[i].stage = "write"
        /\ memoryFile' = saving[i].text
        /\ saving' = [saving EXCEPT
                         ![i] = [stage |-> "finished", awaited |-> saving[i].awaited]]
        /\ UNCHANGED <<entities, relations, params, local, returned, loading>>

\* fs.mkdir or fs.writeFile fails; saveMemory logs the error.
WriteFileFails ==
    \E i \in 1..Len(saving) :
        /\ saving[i].stage \in {"mkdir", "write"}
        /\ saving' = [saving EXCEPT
                         ![i] = [stage |-> "failed", awaited |-> saving[i].awaited]]
        /\ UNCHANGED <<entities, relations, params, local, returned, memoryFile, loading>>

StoreNext ==
    \/ CreateEntities \/ CreateEntitiesReturn \/ CreateRelations \/ AddObservations
    \/ DeleteEntities \/ DeleteObservations \/ DeleteRelations
    \/ Return \/ Mkdir \/ WriteFile \/ WriteFileFails

StoreSpec == StoreInit /\ [][StoreNext]_vars

(***************************************************************************)
(* The server from its construction on: loadMemory runs beside the calls   *)
(***************************************************************************)
\* What MEMORY_PATH holds when the server starts.
StartupFiles ==
    {NoFile,
     memoryData(<<>>, <<>>),
     memoryData(<<Universe[5], Universe[4]>>, InitialRelations)}

\* The state the constructor leaves: an empty Map, no relations, and
\* loadMemory waiting for fs.readFile.
StartupInit ==
    /\ entities = <<>>
    /\ relations = <<>>
    /\ loading = TRUE
    /\ memoryFile \in StartupFiles
    /\ params = NoCall
    /\ local = [valid |-> FALSE]
    /\ returned = NoCall
    /\ saving = <<>>

\* this.entities and this.relations after loadMemory read the file.
loadMemory(ents, rels, file) ==
    IF file = NoFile
    THEN [entities |-> ents, relations |-> rels]
    ELSE [entities |-> setFrom(ents, file.entities, 1), relations |-> file.relations]

\* fs.readFile of loadMemory is over, with the file as it is then: the
\* entities of the file are set in the Map and this.relations becomes the
\* array of the file, or, without a file, the error is logged.
LoadMemory ==
    /\ loading
    /\ loading' = FALSE
    /\ entities' = loadMemory(entities, relations, memoryFile).entities
    /\ relations' = loadMemory(entities, relations, memoryFile).relations
    /\ saving' = IF memoryFile = NoFile THEN saving
                 ELSE detached(saving, entities, relations,
                               {memoryFile.entities[k].name :
                                   k \in 1..Len(memoryFile.entities)},
                               TRUE)
    /\ UNCHANGED <<params, local, returned, memoryFile>>

readGraph == [entities |-> entities, relations |-> relations]

\* One read_graph call, up to its return.
ReadGraph ==
    /\ returned = NoCall
    /\ params' = [type |-> "readGraph"]
    /\ returned' = [type |-> "graph", value |-> readGraph]
    /\ UNCHANGED <<entities, relations, local, memoryFile, saving, loading>>

StartupNext ==
    \/ LoadMemory \/ CreateEntities \/ CreateEntitiesReturn \/ CreateRelations
    \/ ReadGraph \/ Return \/ Mkdir \/ WriteFile \/ WriteFileFails

StartupSpec == StartupInit /\ [][StartupNext]_vars

(***************************************************************************)
(* Properties                                                              *)
(***************************************************************************)
\* A searchNodes call has returned and its value is not yet taken.
Called == returned.type \in {"array", "object"}
\* That call passed the validation of the query.
Searched == Called /\ local.valid
\* The destructured options of that call.
Opts == destructure(params)
\* The results the call returned, in either calling convention.
ReturnedResults == IF returned.type = "array" THEN returned.value ELSE returned.value.results
\* The matches of the call before the limit was applied.
Matches == local.results

IsBlank(q) == \A i \in 1..Len(q) : q[i] = " "
Range(seq) == {seq[i] : i \in 1..Len(seq)}
FuzzyIn(rs) == {i \in 1..Len(rs) : rs[i].searchMeta.matchType = "fuzzy"}
ExactIn(rs) == {i \in 1..Len(rs) : rs[i].searchMeta.matchType = "exact"}
ResultOf(rs, name) == {i \in 1..Len(rs) : rs[i].name = name}

\* C1: for a non-blank query and a limit in 1..200, returnedCount is
\* min(limit, totalMatches), totalMatches counts the matches before the
\* truncation and returnedCount the results returned.
C1_ReturnedCount ==
    (Searched /\ params.type = "object" /\ Opts.limit \in 1..200) =>
        LET md == returned.value.metadata
        IN  /\ md.totalMatches = Len(Matches)
            /\ md.returnedCount = Len(returned.value.results)
            /\ md.returnedCount = Min(Opts.limit, md.totalMatches)

\* The limit cut matches off.
C1_Witness ==
    /\ Searched /\ params.type = "object"
    /\ returned.value.metadata.totalMatches > Opts.limit
    /\ returned.value.metadata.returnedCount = Opts.limit

C3_EmptyQuery ==
    (Called /\ params.type = "object" /\ "query" \in DOMAIN params.value
        /\ IsBlank(params.value.query)) =>
        /\ returned.type = "object"
        /\ returned.value.results = <<>>
        /\ LET md == returned.value.metadata
           IN  /\ "error" \in DOMAIN md /\ md.error # ""
               /\ md.totalMatches = 0 /\ md.returnedCount = 0
               /\ md.topScore = RatInt(0) /\ md.averageScore = RatInt(0)
               /\ md.fuzzyUsed = FALSE

\* A whitespace-only query against a store that is not empty.
C3_Witness ==
    /\ Called /\ params.type = "object" /\ "query" \in DOMAIN params.value
    /\ params.value.query = s_blank
    /\ Len(entities) > 0
    /\ "error" \in DOMAIN returned.value.metadata

\* C4: the legacy call searchNodes(q) returns a bare sequence of results for
\* every string q, the results of searchNodes({query: q}).
C4_LegacyBareResults ==
    (Called /\ params.type = "string") =>
        /\ returned.type = "array"
        /\ returned.value = searchNodes(ObjectArg([query |-> params.value])).value.results

\* C5 as stated: an entity whose non-blank name equals the query but for case
\* is a match with score 100, type 'exact' and 'name' among its matched fields.
C5_ExactNameAnyLength ==
    Searched =>
        \A k \in 1..Len(entities) :
            LET e == entities[k]
            IN  (/\ ~IsBlank(e.name)
                 /\ toLowerCase(Opts.query) = toLowerCase(e.name)
                 /\ "name" \in Opts.fields /\ Opts.minScore <= 100) =>
                    \E i \in ResultOf(Matches, e.name) :
                        /\ Matches[i].searchMeta.score = RatInt(100)
                        /\ Matches[i].searchMeta.matchType = "exact"
                        /\ "name" \in Range(Matches[i].searchMeta.matchedFields)

\* C5, amended: the same for names no longer than the longest query that is
\* not truncated.
C5_ExactName ==
    Searched =>
        \A k \in 1..Len(entities) :
            LET e == entities[k]
            IN  (/\ ~IsBlank(e.name)
                 /\ Len(e.name) <= MaxQueryLength
                 /\ toLowerCase(Opts.query) = toLowerCase(e.name)
                 /\ "name" \in Opts.fields /\ Opts.minScore <= 100) =>
                    \E i \in ResultOf(Matches, e.name) :
                        /\ Matches[i].searchMeta.score = RatInt(100)
                        /\ Matches[i].searchMeta.matchType = "exact"
                        /\ "name" \in Range(Matches[i].searchMeta.matchedFields)

\* The query differs from the name of a stored entity in case only, and
\* minScore is 100.
C5_Witness ==
    /\ Searched /\ Opts.minScore = 100 /\ "name" \in Opts.fields
    /\ \E k \in 1..Len(entities) :
          /\ entities[k].name # Opts.query
          /\ toLowerCase(entities[k].name) = toLowerCase(Opts.query)
          /\ ResultOf(Matches, entities[k].name) # {}

\* C6: fuzzy results (and fuzzyUsed) appear only when the fuzzy option is on
\* and the exact pass kept fewer than FewResults results; when it kept that
\* many or more, no fuzzy result is added and fuzzyUsed is false.
C6_FuzzyOnlyWhenFew ==
    (Searched /\ params.type = "object") =>
        LET md == returned.value.metadata
            exactKept == Cardinality(ExactIn(Matches))
            anyFuzzy == FuzzyIn(Matches) # {} \/ FuzzyIn(ReturnedResults) # {}
        IN  /\ (anyFuzzy \/ md.fuzzyUsed) => (Opts.fuzzy /\ exactKept < FewResults)
            /\ exactKept >= FewResults => (~anyFuzzy /\ ~md.fuzzyUsed)

\* The fuzzy option is on and the exact pass kept FewResults results, while
\* an entity it did not keep is similar enough to the query to be a fuzzy match.
C6_Witness ==
    /\ Searched /\ params.type = "object" /\ Opts.fuzzy /\ Opts.minScore = 0
    /\ "name" \in Opts.fields
    /\ Cardinality(ExactIn(Matches)) >= FewResults
    /\ \E k \in 1..Len(entities) :
          /\ ResultOf(Matches, entities[k].name) = {}
          /\ RatGE(similarityRatio(local.truncatedQuery, entities[k].name),
                   Opts.fuzzyThreshold)

\* C7 as stated: fuzzyUsed is true exactly when a returned result is fuzzy.
C7_FuzzyUsedIffReturned ==
    (Searched /\ params.type = "object") =>
        (returned.value.metadata.fuzzyUsed <=> FuzzyIn(returned.value.results) # {})

\* C7, amended: fuzzyUsed is true exactly when a match is fuzzy, before the
\* limit is applied.
C7_FuzzyUsedIffMatched ==
    (Searched /\ params.type = "object") =>
        (returned.value.metadata.fuzzyUsed <=> FuzzyIn(Matches) # {})

\* The limit cut off every fuzzy match.
C7_Witness ==
    /\ Searched /\ params.type = "object"
    /\ FuzzyIn(Matches) # {}
    /\ FuzzyIn(returned.value.results) = {}
    /\ returned.value.results # <<>>

\* C8: every match, exact or fuzzy, scores at least minScore, and
\* totalMatches counts only such matches.
C8_MinScore ==
    Searched =>
        /\ \A i \in 1..Len(Matches) :
              RatGE(Matches[i].searchMeta.score, RatInt(Opts.minScore))
        /\ \A i \in 1..Len(ReturnedResults) :
              RatGE(ReturnedResults[i].searchMeta.score, RatInt(Opts.minScore))
        /\ params.type = "object" =>
              returned.value.metadata.totalMatches =
                 Cardinality({i \in 1..Len(Matches) :
                     RatGE(Matches[i].searchMeta.score, RatInt(Opts.minScore))})

\* minScore left out an entity that contains the query and one that is
\* similar to it, and kept another.
C8_Witness ==
    /\ Searched /\ Opts.minScore > 0 /\ Opts.fuzzy /\ Matches # <<>>
    /\ Cardinality(ExactIn(Matches)) < FewResults
    /\ \E k \in 1..Len(entities) :
          /\ ResultOf(Matches, entities[k].name) = {}
          /\ includes(toLowerCase(join(getSearchableFields(entities[k], Opts.fields))),
                      toLowerCase(local.truncatedQuery))
    /\ \E k \in 1..Len(entities) :
          /\ ResultOf(Matches, entities[k].name) = {}
          /\ "name" \in Opts.fields
          /\ RatGE(similarityRatio(local.truncatedQuery, entities[k].name),
                   Opts.fuzzyThreshold)

\* C9: with everything else fixed, a higher minScore never returns more results.
C9_MinScoreMonotone ==
    (Searched /\ params.type = "object" /\ "minScore" \in DOMAIN params.value) =>
        \A m \in MinScores :
            m >= Opts.minScore =>
                Len(searchNodes(ObjectArg([params.value EXCEPT !.minScore = m])).value.results)
                    <= Len(returned.value.results)

\* Some observation of e, among its first n, contains the query.
ObservationContains(e, query, n) ==
    \E i \in 1..Min(Len(e.observations), n) :
        includes(toLowerCase(e.observations[i]), toLowerCase(query))

\* For every entity with a matching observation among its first n:
\* the entity is a match and 'observations' is among its matched fields.
ObservationsMatched(n) ==
    \A k \in 1..Len(entities) :
        ObservationContains(entities[k], Opts.query, n) =>
            \E i \in ResultOf(Matches, entities[k].name) :
                "observations" \in Range(Matches[i].searchMeta.matchedFields)

\* C10 as stated: with 'observations' requested and minScore 0, an entity with
\* an observation that contains the query, at any position, is a match and
\* 'observations' is among its matched fields.
C10_AnyObservation ==
    (Searched /\ "observations" \in Opts.fields /\ Opts.minScore = 0) =>
        \A n \in 1..(MaxObservations + 1) : ObservationsMatched(n)

\* C10, amended: the same for an observation among the first MaxObservations.
C10_ScannedObservation ==
    (Searched /\ "observations" \in Opts.fields /\ Opts.minScore = 0) =>
        ObservationsMatched(MaxObservations)

\* An entity matched through an observation that is not its first, while
\* neither its name nor its type contains the query.
C10_Witness ==
    /\ Searched /\ "observations" \in Opts.fields /\ Opts.minScore = 0
    /\ \E k \in 1..Len(entities) :
          /\ ObservationContains(entities[k], Opts.query, MaxObservations)
          /\ ~ObservationContains(entities[k], Opts.query, 1)
          /\ \E i \in ResultOf(Matches, entities[k].name) :
                Matches[i].searchMeta.matchedFields = <<"observations">>

\* The requested fields of e contain the query.
ContainsQuery(e, query, fields) ==
    includes(toLowerCase(join(getSearchableFields(e, fields))), toLowerCase(query))

\* Entity e is a fuzzy match scoring below 100, and is returned when the limit
\* cuts nothing off.
FuzzyMatched(e) ==
    /\ \E i \in ResultOf(Matches, e.name) :
          /\ Matches[i].searchMeta.matchType = "fuzzy"
          /\ RatLT(Matches[i].searchMeta.score, RatInt(100))
    /\ Len(Matches) <= Opts.limit => ResultOf(ReturnedResults, e.name) # {}

\* The entities whose requested fields do not contain the query while their
\* name is similar enough to it, in a run where the fuzzy pass is due.
FuzzyCandidates ==
    IF Opts.fuzzy /\ "name" \in Opts.fields /\ Opts.minScore = 0
       /\ local.exactCount < FewResults
    THEN {k \in 1..Len(entities) :
             /\ ~ContainsQuery(entities[k], Opts.query, Opts.fields)
             /\ RatGE(similarityRatio(Opts.query, entities[k].name),
                      Opts.fuzzyThreshold)}
    ELSE {}

\* C11 as stated: with fuzzy on, 'name' requested, minScore 0 and fewer than
\* FewResults exact results, an entity that does not contain the query but has
\* a name similar enough to it is a fuzzy match with a score below 100.
C11_FuzzyMatchAnyLength ==
    Searched => \A k \in FuzzyCandidates : FuzzyMatched(entities[k])

\* C11, amended: the same for queries that are not truncated.
C11_FuzzyMatch ==
    (Searched /\ Len(Opts.query) <= MaxQueryLength) =>
        \A k \in FuzzyCandidates : FuzzyMatched(entities[k])

\* An entity whose name is exactly at the threshold became a fuzzy match.
C11_Witness ==
    /\ Searched /\ Len(Opts.query) <= MaxQueryLength
    /\ \E k \in FuzzyCandidates :
          /\ similarityRatio(Opts.query, entities[k].name) = Opts.fuzzyThreshold
          /\ FuzzyMatched(entities[k])

\* The string contains the query or is similar enough to it.
WithinReach(str, query, threshold) ==
    \/ includes(toLowerCase(str), toLowerCase(query))
    \/ RatGE(similarityRatio(query, str), threshold)

\* With one field requested, every returned entity is within reach of the
\* query by that field.
OnlyByField(query) ==
    /\ Opts.fields = {"entityType"} =>
          \A i \in 1..Len(ReturnedResults) :
              WithinReach(ReturnedResults[i].entityType, query, Opts.fuzzyThreshold)
    /\ Opts.fields = {"name"} =>
          \A i \in 1..Len(ReturnedResults) :
              WithinReach(ReturnedResults[i].name, query, Opts.fuzzyThreshold)

\* C12 as stated: with fields ['entityType'] (or ['name']) and a positive
\* fuzzyThreshold, every returned entity has an entityType (a name) that
\* contains the query or is within the threshold of it.
C12_OnlyRequestedFieldAnyLength ==
    (Searched /\ RatGT(Opts.fuzzyThreshold, RatInt(0))) => OnlyByField(Opts.query)

\* C12, amended: the same with the query cut to MaxQueryLength characters,
\* which is the query itself when it is no longer than that.
C12_OnlyRequestedField ==
    (Searched /\ RatGT(Opts.fuzzyThreshold, RatInt(0))) =>
        OnlyByField(truncate(Opts.query))

\* A search by entityType alone returned results although the store holds an
\* entity, not returned, whose name equals the query but for case.
C12_Witness ==
    /\ Searched /\ Opts.fields = {"entityType"} /\ Opts.fuzzy
    /\ ReturnedResults # <<>>
    /\ Len(Matches) <= Opts.limit
    /\ \E k \in 1..Len(entities) :
          /\ toLowerCase(entities[k].name) = toLowerCase(Opts.query)
          /\ ResultOf(ReturnedResults, entities[k].name) = {}

\* The first MaxQueryLength characters of the query of the call.
QueryPrefix == SubSeq(Opts.query, 1, MaxQueryLength)

RECURSIVE ScoreSum(_, _)
ScoreSum(rs, n) ==
    IF n = 0 THEN RatInt(0)
    ELSE RatAdd(ScoreSum(rs, n - 1), rs[n].searchMeta.score)

\* C14: topScore is the greatest score among the returned results,
\* averageScore times returnedCount is the sum of their scores, and both are 0
\* when nothing is returned; the matches cut off by the limit play no part.
C14_ScoresOverReturned ==
    (Called /\ params.type = "object") =>
        LET md == returned.value.metadata
            rs == returned.value.results
        IN  /\ md.returnedCount = Len(rs)
            /\ rs = <<>> => (md.topScore = RatInt(0) /\ md.averageScore = RatInt(0))
            /\ rs # <<>> =>
                  /\ \E i \in 1..Len(rs) : rs[i].searchMeta.score = md.topScore
                  /\ \A i \in 1..Len(rs) : RatLE(rs[i].searchMeta.score, md.topScore)
                  /\ RatMul(md.averageScore, RatInt(md.returnedCount))
                        = ScoreSum(rs, Len(rs))

\* Two results of different scores were returned and the limit cut off a
\* match with yet another score.
C14_Witness ==
    /\ Searched /\ params.type = "object"
    /\ Len(returned.value.results) = 2
    /\ Len(Matches) > 2
    /\ RatGT(returned.value.results[1].searchMeta.score,
             returned.value.results[2].searchMeta.score)
    /\ RatGT(returned.value.results[2].searchMeta.score, Matches[3].searchMeta.score)
    /\ RatLT(returned.value.metadata.averageScore, returned.value.metadata.topScore)

\* The strings one insertion, deletion or substitution away from str, no
\* longer than cap.
Edits(str, cap) ==
    {SubSeq(str, 1, i - 1) \o SubSeq(str, i + 1, Len(str)) : i \in 1..Len(str)}
    \cup {[str EXCEPT ![i] = c] : i \in 1..Len(str), c \in Alphabet}
    \cup (IF Len(str) < cap
          THEN {SubSeq(str, 1, i) \o <<c>> \o SubSeq(str, i + 1, Len(str)) :
                   i \in 0..Len(str), c \in Alphabet}
          ELSE {})

\* The strings at most n edits away from str.
RECURSIVE Within(_, _, _)
Within(str, n, cap) ==
    IF n = 0 THEN {str}
    ELSE LET near == Within(str, n - 1, cap)
         IN  near \cup UNION {Edits(x, cap) : x \in near}

\* The least number of edits that turn a into b.
EditDistance(a, b) ==
    LET cap == Max(Len(a), Len(b)) + 1
    IN  CHOOSE n \in 0..Max(Len(a), Len(b)) :
            /\ b \in Within(a, n, cap)
            /\ \A m \in 0..(n - 1) : b \notin Within(a, m, cap)

\* C15: levenshteinDistance(a, b) is the least number of single-character
\* insertions, deletions and substitutions that turn a into b, the empty
\* strings included, and equals levenshteinDistance(b, a).
C15_Levenshtein ==
    returned.type = "distance" =>
        /\ returned.value = EditDistance(params.str1, params.str2)
        /\ returned.value = levenshteinDistance(params.str2, params.str1)

\* Two strings of different lengths, neither empty, at a distance of 2 that
\* takes a deletion and a substitution.
C15_Witness ==
    /\ returned.type = "distance"
    /\ returned.value = 2
    /\ Len(params.str1) = 3 /\ Len(params.str2) = 2

\* The strings that differ from str in letter case only.
CaseVariants(str) ==
    {v \in StringsOfLength(Len(str)) : toLowerCase(v) = toLowerCase(str)}

\* C16: similarityRatio(a, b) is a number in [0, 1], is unchanged when the
\* letter case of a or b changes, and similarityRatio(a, a) = 1 for every a.
C16_SimilarityRatio ==
    returned.type = "ratio" =>
        /\ RatGE(returned.value, RatInt(0)) /\ RatLE(returned.value, RatInt(1))
        /\ \A v1 \in CaseVariants(params.str1), v2 \in CaseVariants(params.str2) :
              similarityRatio(v1, v2) = returned.value
        /\ params.str1 = params.str2 => returned.value = RatInt(1)

\* No two elements of rs have the same name, and each is a stored entity.
OncePerEntity(rs) ==
    /\ \A i, j \in 1..Len(rs) : rs[i].name = rs[j].name => i = j
    /\ \A i \in 1..Len(rs) :
          \E k \in 1..Len(entities) :
              /\ entities[k].name = rs[i].name
              /\ entities[k].entityType = rs[i].entityType
              /\ entities[k].observations = rs[i].observations

\* C17: no two results of a response have the same name: each stored entity
\* appears at most once, among the matches and among the returned results,
\* and an entity kept by the exact pass is not added again as a fuzzy result.
C17_NoDuplicates ==
    Called =>
        /\ OncePerEntity(ReturnedResults)
        /\ Searched =>
              /\ OncePerEntity(Matches)
              /\ \A i \in ExactIn(Matches) :
                    \A j \in FuzzyIn(Matches) : Matches[i].name # Matches[j].name

\* The fuzzy pass ran and found an entity that the exact pass had kept.
C17_Witness ==
    /\ Searched /\ Opts.fuzzy /\ local.exactCount < FewResults
    /\ "name" \in Opts.fields
    /\ \E i \in ExactIn(Matches) :
          /\ RatGE(similarityRatio(local.truncatedQuery, Matches[i].name),
                   Opts.fuzzyThreshold)
          /\ RatGE(RatMul(RatMul(Matches[i].searchMeta.score, Rat(8, 10)),
                          similarityRatio(local.truncatedQuery, Matches[i].name)),
                   RatInt(Opts.minScore))

\* C18: a searchNodes call, in either calling convention and on every path,
\* leaves the entities (their names, types and observations, in their order)
\* and the relations as they were.
C18_StoreUnchanged ==
    [][(returned = NoCall /\ returned'.type \in {"array", "object"}) =>
          (entities' = entities /\ relations' = relations)]_vars

\* A search with exact and fuzzy matches has returned; the store holds
\* relations and is still what was loaded from the memory file.
C18_Witness ==
    /\ Searched
    /\ ExactIn(Matches) # {} /\ FuzzyIn(Matches) # {}
    /\ relations # <<>>
    /\ memoryFile = memoryData(entities, relations)

\* The names of the stored entities.
NamesOf(ents) == {ents[k].name : k \in 1..Len(ents)}

\* The listed names that are in the store.
Listed(entityNames, ents) == Range(entityNames) \cap NamesOf(ents)

\* C20: deleteEntities(names) removes every listed name that was in the store,
\* returns the entity of each, and leaves no relation from or to such a name;
\* the other entities and relations stay, and names that were not in the store
\* change nothing.
C20_DeleteEntities ==
    [][(returned = NoCall /\ returned'.type = "deleted") =>
          LET gone == Listed(params'.value, entities)
              Stays(e) == e.name \notin gone
              Apart(rel) == rel.from \notin gone /\ rel.to \notin gone
          IN  /\ NamesOf(entities') \cap gone = {}
              /\ \A k \in 1..Len(entities) :
                    entities[k].name \in gone =>
                        \E i \in 1..Len(returned'.value) :
                            returned'.value[i] = entities[k]
              /\ \A i \in 1..Len(relations') :
                    relations'[i].from \notin gone /\ relations'[i].to \notin gone
              /\ entities' = SelectSeq(entities, Stays)
              /\ relations' = SelectSeq(relations, Apart)
              /\ gone = {} => (entities' = entities /\ relations' = relations)]_vars

\* A call listing three names, one of them stored, has removed that entity
\* and some of the relations, not all.
C20_Witness ==
    /\ returned.type = "deleted"
    /\ Len(returned.value) = 1
    /\ Len(params.value) = 3
    /\ entities # <<>>
    /\ relations # <<>> /\ Len(relations) < Len(InitialRelations)

\* The number of results the call returns when its fuzzyThreshold is t.
ReturnedWith(t) ==
    Len(searchNodes(ObjectArg([params.value EXCEPT !.fuzzyThreshold = t])).value.results)

\* C19: with everything else fixed, a lower fuzzyThreshold never returns
\* fewer results.
C19_ThresholdMonotone ==
    (Searched /\ params.type = "object" /\ "fuzzyThreshold" \in DOMAIN params.value) =>
        \A t \in Thresholds :
            RatLE(t, Opts.fuzzyThreshold) => ReturnedWith(t) >= Len(returned.value.results)

\* The lower of the thresholds returns more results than the higher, which
\* returns some.
C19_Witness ==
    /\ Searched /\ params.type = "object" /\ "fuzzyThreshold" \in DOMAIN params.value
    /\ returned.value.results # <<>>
    /\ \E t \in Thresholds :
          /\ RatLT(t, Opts.fuzzyThreshold)
          /\ ReturnedWith(t) > Len(returned.value.results)

\* C21: after deleteObservations names the text o for an entity e of the
\* store, o is not among the observations of e, however often it was added
\* before, and every entity stays in the store.
C21_ObservationGone ==
    [][(returned = NoCall /\ returned'.type = "deletions") =>
          /\ [k \in 1..Len(entities') |-> entities'[k].name]
                = [k \in 1..Len(entities) |-> entities[k].name]
          /\ \A d \in 1..Len(params'.value) :
                \A k \in 1..Len(entities') :
                    entities'[k].name = params'.value[d].entityName =>
                        Range(entities'[k].observations)
                           \cap Range(params'.value[d].observations) = {}]_vars

\* C22: once every saveMemory that was started has finished, none of them
\* having failed, the memory file holds the entities and the relations of
\* the store.
C22_Persisted ==
    (saving # <<>> /\ \A i \in 1..Len(saving) : saving[i].stage = "finished") =>
        memoryFile = memoryData(entities, relations)

\* The score of the name criterion alone, 0 when it does not apply.
NameScore(e, query) ==
    LET n == Len(e.name)
        position == indexOf(toLowerCase(e.name), toLowerCase(query))
    IN  IF toLowerCase(e.name) = toLowerCase(query) THEN RatInt(100)
        ELSE IF includes(toLowerCase(e.name), toLowerCase(query))
        THEN RatAdd(RatInt(60),
                    RatMul(RatMul(RatInt(30), RatSub(RatInt(1), Rat(position, n))),
                           Rat(Len(query), n)))
        ELSE RatInt(0)

\* The score of the entity type criterion alone, 0 when it does not apply.
TypeScore(e, query) ==
    IF toLowerCase(e.entityType) = toLowerCase(query) THEN RatInt(85)
    ELSE IF includes(toLowerCase(e.entityType), toLowerCase(query)) THEN RatInt(70)
    ELSE RatInt(0)

\* The indices (from 1) of the observations of e that contain the query.
Matching(e, query) ==
    {i \in 1..Len(e.observations) :
        includes(toLowerCase(e.observations[i]), toLowerCase(query))}

\* The matching observations the scan reaches: among the first MaxObservations,
\* with fewer than MaxFoundMatches matching ones before them.
Scanned(e, query) ==
    {i \in Matching(e, query) :
        /\ i <= MaxObservations
        /\ Cardinality({j \in Matching(e, query) : j < i}) < MaxFoundMatches}

\* The number of non-overlapping occurrences of the query in str, from the left.
RECURSIVE OccurrenceCount(_, _)
OccurrenceCount(str, query) ==
    IF ~includes(str, query) THEN 0
    ELSE 1 + OccurrenceCount(
                 SubSeq(str, indexOf(str, query) + Len(query) + 1, Len(str)), query)

\* The score of the observation criterion alone, 0 when it does not apply.
ObservationScore(e, query) ==
    LET scores == {20 + Min(30, 10 * OccurrenceCount(toLowerCase(e.observations[i]),
                                                     toLowerCase(query))) :
                      i \in Scanned(e, query)}
    IN  IF scores = {} THEN RatInt(0)
        ELSE RatInt(CHOOSE s \in scores : \A t \in scores : t <= s)

\* The greatest of the three criteria.
MaxOfCriteria(e, query) ==
    RatMax(RatMax(NameScore(e, query), TypeScore(e, query)), ObservationScore(e, query))

SameRat(a, b) == RatLE(a, b) /\ RatLE(b, a)

\* C23: for matchType 'exact' the score is the maximum, not the sum, of the
\* name, entity type and observation criteria evaluated independently, and 0
\* when no criterion applies.
C23_MaxOfCriteria ==
    Searched =>
        \A k \in 1..Len(entities) :
            SameRat(calculateRelevanceScore(entities[k], local.truncatedQuery, "exact").score,
                    MaxOfCriteria(entities[k], local.truncatedQuery))

\* A returned exact match on which two criteria apply with different scores.
C23_Witness ==
    /\ Searched
    /\ \E i \in ExactIn(ReturnedResults) :
          LET e == ReturnedResults[i]
              q == local.truncatedQuery
          IN  /\ RatGT(NameScore(e, q), RatInt(0))
              /\ RatGT(ObservationScore(e, q), RatInt(0))
              /\ RatLT(ObservationScore(e, q), NameScore(e, q))
              /\ SameRat(e.searchMeta.score, NameScore(e, q))

\* The name equals the query, case ignored.
NameIs(e, query) == toLowerCase(e.name) = toLowerCase(query)

\* The name contains the query, case ignored, without being equal to it.
NameMerelyContains(e, query) ==
    includes(toLowerCase(e.name), toLowerCase(query)) /\ ~NameIs(e, query)

\* Every match scores within [0, 100], and 100 exactly when it is an exact
\* match whose name is the query; a name that merely contains the query gets
\* a name score in [60, 90), and a fuzzy match scores at most 80.
ScoreRange(query) ==
    \A i \in 1..Len(Matches) :
        LET r == Matches[i]
        IN  /\ RatGE(r.searchMeta.score, RatInt(0))
            /\ RatLE(r.searchMeta.score, RatInt(100))
            /\ SameRat(r.searchMeta.score, RatInt(100))
                  <=> (r.searchMeta.matchType = "exact" /\ NameIs(r, query))
            /\ NameMerelyContains(r, query) =>
                  /\ RatGE(nameCriterion(noMatch, r, query).score, RatInt(60))
                  /\ RatLT(nameCriterion(noMatch, r, query).score, RatInt(90))
            /\ r.searchMeta.matchType = "fuzzy" => RatLE(r.searchMeta.score, RatInt(80))

Recorded(r) ==
    IF "observations" \in DOMAIN r.searchMeta.highlights
    THEN r.searchMeta.highlights["observations"]
    ELSE <<>>

\* The recorded indices are exactly those of the set, each once and ascending,
\* and the key is absent when there is none.
RecordsExactly(r, indices) ==
    /\ Range(Recorded(r)) = {i - 1 : i \in indices}
    /\ \A m, n \in 1..Len(Recorded(r)) : m < n => Recorded(r)[m] < Recorded(r)[n]
    /\ indices = {} <=> "observations" \notin DOMAIN r.searchMeta.highlights

\* C25 as stated: highlights.observations lists every index below
\* MaxObservations whose observation contains the query, however many match.
C25_AllHighlights ==
    Searched =>
        \A i \in 1..Len(Matches) :
            RecordsExactly(Matches[i],
                {k \in Matching(Matches[i], local.truncatedQuery) : k <= MaxObservations})

\* C25: highlights.observations lists the first MaxFoundMatches indices below
\* MaxObservations whose observation contains the query, in ascending order;
\* later matching observations are not recorded.
C25_FirstHighlights ==
    Searched =>
        \A i \in 1..Len(Matches) :
            RecordsExactly(Matches[i], Scanned(Matches[i], local.truncatedQuery))

\* A match with more than MaxFoundMatches matching observations among the
\* first MaxObservations, of which MaxFoundMatches are recorded.
C25_Witness ==
    /\ Searched
    /\ \E i \in 1..Len(Matches) :
          /\ Cardinality({k \in Matching(Matches[i], local.truncatedQuery) :
                             k <= MaxObservations}) > MaxFoundMatches
          /\ Len(Recorded(Matches[i])) = MaxFoundMatches

\* The larger of the similarity ratios of the query to the name and to the
\* entity type, among the requested fields; 0 when neither is requested.
MaxSimilarity(e, query, fields) ==
    LET nameSim == IF "name" \in fields THEN similarityRatio(query, e.name) ELSE RatInt(0)
        typeSim == IF "entityType" \in fields
                   THEN similarityRatio(query, e.entityType) ELSE RatInt(0)
    IN  RatMax(nameSim, typeSim)

\* C26: the score of every fuzzy result is 0.8 times maxSimilarity times the
\* score the exact policy gives the same entity and query, where maxSimilarity
\* is the larger similarity ratio of the query to the name and to the
\* entityType among the requested fields.
C26_FuzzyScore ==
    Searched =>
        \A i \in FuzzyIn(Matches) :
            LET sim == MaxSimilarity(Matches[i], local.truncatedQuery, Opts.fields)
            IN  /\ SameRat(Matches[i].searchMeta.similarity, sim)
                /\ SameRat(Matches[i].searchMeta.score,
                           RatMul(RatMul(Rat(8, 10), sim),
                                  MaxOfCriteria(Matches[i], local.truncatedQuery)))

\* A returned fuzzy result with a score above 0 and a similarity below 1.
C26_Witness ==
    /\ Searched
    /\ \E i \in FuzzyIn(ReturnedResults) :
          /\ RatGT(ReturnedResults[i].searchMeta.score, RatInt(0))
          /\ RatLT(ReturnedResults[i].searchMeta.similarity, RatInt(1))

\* The store st with its insertion order reversed.
Reversed(st) == [i \in 1..Len(st) |-> st[Len(st) + 1 - i]]

\* The store st with the entities at k and k + 1 inserted the other way round.
Swapped(st, k) ==
    [i \in 1..Len(st) |-> IF i = k THEN st[k + 1] ELSE IF i = k + 1 THEN st[k] ELSE st[i]]

\* Other insertion orders of the entities of st.
Orders(st) == {Reversed(st)} \cup {Swapped(st, k) : k \in 1..(Len(st) - 1)}

\* The matches of a search with options d over a store holding ents, sorted.
MatchesOver(ents, d, exactResults) ==
    sort(IF fuzzyFallback(d.fuzzy, exactResults)
         THEN mergeFuzzy(exactResults,
                         fuzzyFrom(ents, 1, truncate(d.query), d.fields, d.fuzzyThreshold),
                         1, d.minScore)
         ELSE exactResults)

\* What searchNodes(p) returns over a store holding ents.
SearchOver(ents, p) ==
    returnValue(p,
        localsOf(p,
            [truncatedQuery |-> truncate(destructure(p).query),
             exactCount |-> 0,
             results |-> MatchesOver(ents, destructure(p),
                             exactFrom(ents, 1, truncate(destructure(p).query),
                                       destructure(p).fields, destructure(p).minScore))]))

\* C27: a search returns the same results sequence and the same metadata over
\* every store that holds the same entities inserted in another order.
C27_OrderIndependent ==
    Called =>
        /\ SearchOver(entities, params) = returned
        /\ \A st \in Orders(entities) : SearchOver(st, params) = returned

\* C28: with all three field categories requested, every fuzzy match has
\* score 0 and no matched field; so with a minScore above 0 there is no fuzzy
\* match and fuzzyUsed is false.
C28_FuzzyScoresNothing ==
    (Searched /\ Opts.fields = AllFields) =>
        /\ \A i \in FuzzyIn(Matches) :
              /\ SameRat(Matches[i].searchMeta.score, RatInt(0))
              /\ Matches[i].searchMeta.matchedFields = <<>>
        /\ Opts.minScore > 0 =>
              /\ FuzzyIn(Matches) = {}
              /\ params.type = "object" => ~returned.value.metadata.fuzzyUsed

\* A search over all fields returning a fuzzy result, at minScore 0.
C28_Witness ==
    /\ Searched /\ Opts.fields = AllFields
    /\ FuzzyIn(ReturnedResults) # {}
    /\ Opts.minScore = 0

\* The entity e with the content of every field outside fields replaced by
\* text that contains no query: the empty string, no observations.
Blanked(e, fields) ==
    [name |-> IF "name" \in fields THEN e.name ELSE <<>>,
     entityType |-> IF "entityType" \in fields THEN e.entityType ELSE <<>>,
     observations |-> IF "observations" \in fields THEN e.observations ELSE <<>>]

\* The score the match r would have with only the requested fields scored.
ScoreOfRequested(r, query, fields) ==
    IF r.searchMeta.matchType = "exact"
    THEN MaxOfCriteria(Blanked(r, fields), query)
    ELSE RatMul(RatMul(Rat(8, 10), r.searchMeta.similarity),
                MaxOfCriteria(Blanked(r, fields), query))

\* C29: for every match, matchedFields is a subset of the requested fields,
\* and the score is what it would be with every non-requested field replaced
\* by text that does not contain the query.
C29_RespectsFields ==
    Searched =>
        \A i \in 1..Len(Matches) :
            /\ Range(Matches[i].searchMeta.matchedFields) \subseteq Opts.fields
            /\ SameRat(Matches[i].searchMeta.score,
                       ScoreOfRequested(Matches[i], local.truncatedQuery, Opts.fields))

\* The entity was created by a create_entities call, and every such call
\* naming it has returned.
Acknowledged(e) ==
    \A i \in 1..Len(saving) :
        saving[i].awaited # Unawaited =>
            \A k \in 1..Len(saving[i].awaited.value) :
                saving[i].awaited.value[k].name # e.name

\* C30: while loadMemory is pending every stored entity and relation was
\* added by a call; in a step that is no create_entities or create_relations
\* call, each relation and each acknowledged entity stays in the graph with
\* its content, and read_graph reports the graph as it is.
C30_AcknowledgedStays ==
    [][/\ (loading /\ Len(saving') = Len(saving)) =>
             /\ \A r \in Range(relations) : r \in Range(relations')
             /\ \A e \in Range(entities) : Acknowledged(e) => e \in Range(entities')
       /\ returned'.type = "graph" =>
             returned'.value = [entities |-> entities, relations |-> relations]]_vars

====
